---- MODULE Spec2Model ----
(***************************************************************************)
(* State-machine model of the post-sync audio tools:                       *)
(*   - the click detector of audio_processor.py (AudioProcessor),          *)
(*   - the offset estimator and channel realigner of sync.py / main.py /   *)
(*     filtering.py,                                                       *)
(*   - the batch drivers that walk a directory of .wav files.              *)
(* Python indices are 0-based; sequences here are 1-based, so the sample   *)
(* the code calls s[j] is At(s, j) == s[j + 1].                            *)
(***************************************************************************)
EXTENDS Integers, Sequences, FiniteSets, TLC

VARIABLES
    det,    \* AudioProcessor.detect_clicks_and_cut: one scan of one buffer
    est,    \* estimate the offset, realign, estimate again
    ra,     \* one call of modify_data
    drv,    \* the alignment drivers: process_directory, main.py's loop
    clk,    \* the click driver: AudioProcessor.process_files
    nrm,    \* one call of normalize on a signal of 16-bit samples
    pipe    \* one call of process_wav_file

vars == <<det, est, ra, drv, clk, nrm, pipe>>

(***************************************************************************)
(* Bounds of the model.                                                    *)
(***************************************************************************)
\* longest buffer handed to the click detector
MaxLen == 4
\* cap on the length of the detector's result list (a scan that never
\* terminates appends for ever)
MaxClicks == 6
\* longest signal handed to the offset estimator
MaxN == 4
\* longest buffer handed to the channel realigner
MaxRows == 4
\* passes (runs and restarts) of a driver over its directory
MaxPasses == 2
\* most clicks the detector finds in one file of the click driver
MaxFileClicks == 2
\* longest signal handed to one call of normalize
MaxSig == 3
\* longest buffer handed to process_wav_file
MaxPipeRows == 24
\* leading rows of a process_wav_file buffer that take every sample value
\* (the rows after them are silence)
MaxHead == 3

(***************************************************************************)
(* Program constants.                                                      *)
(***************************************************************************)
\* threshold=0.2, as the rational ThresholdNum / ThresholdDen
ThresholdNum == 1
ThresholdDen == 5
\* peak_detect_ms=30
PeakDetectMs == 30
\* high_pass_filter: cutoff=20000, order=5
Cutoff == 20000
FilterOrder == 5

(***************************************************************************)
(* Input domains.                                                          *)
(***************************************************************************)
\* channel-0 sample values of detector buffers: with a maximum of 5 the
\* normalized values are -1, 0, 0.2 (exactly the threshold), 0.6 and 1
DetSamples == {-5, 0, 1, 3, 5}
\* sample rates: int(0.01 * rate) is 0, 1, 2 and the peak window 1, 3, 6
DetRates == {50, 100, 200}
\* sample values of estimator signals: every quotient by a maximum of 1 or
\* 4 is exact in binary floating point, so the exact sums below are the
\* sums the code computes
EstSamples == {-4, -1, 0, 1, 4}
\* sample values of realigner buffers
RaSamples == {0, 1}
\* 16-bit PCM sample values handed to normalize: both ends of the int16
\* range, zero, and two values of small magnitude
NrmSamples == {-32768, -32767, -100, 0, 100, 32767}

\* sample values of the leading rows of process_wav_file buffers
PipeSamples == {0, 1}
\* sample rates of process_wav_file inputs: butter rejects the first
\* (cutoff / nyquist = 1.0) and accepts the second
PipeRates == {40000, 48000}
\* sync_duration_ms values, as exact binary fractions num / den of a
\* millisecond: 0, 1/32 and 1/16 ms give sync lengths of 0, 1 and 2 or 3
\* rows at these rates
SyncDurations ==
    {[num |-> 0, den |-> 1], [num |-> 1, den |-> 32], [num |-> 1, den |-> 16]}

(***************************************************************************)
(* Helpers for Python / numpy primitives.                                  *)
(***************************************************************************)
At(s, j) == s[j + 1]

Min(a, b) == IF a < b THEN a ELSE b

Max(a, b) == IF a > b THEN a ELSE b

Sign(x) == IF x > 0 THEN 1 ELSE IF x < 0 THEN -1 ELSE 0

\* a / b > c / d for b, d # 0 (the comparison of two float quotients)
RatGT(a, b, c, d) == Sign(a * d - c * b) * Sign(b) * Sign(d) = 1

\* s[lo:hi] for 0 <= lo, hi <= len(s)
Slice(s, lo, hi) == SubSeq(s, lo + 1, hi)

\* data[:, c]
Channel(rows, c) == [j \in 1..Len(rows) |-> rows[j][c + 1]]

SeqsUpTo(S, n) == UNION {[1..m -> S] : m \in 0..n}

\* np.abs on 16-bit samples: -32768 has no positive counterpart
Abs16(x) == IF x = -32768 THEN -32768 ELSE IF x < 0 THEN -x ELSE x

\* np.max(np.abs(signal)) of a non-empty signal
max_val(signal) ==
    LET S == {Abs16(signal[j]) : j \in 1..Len(signal)}
    IN  CHOOSE m \in S : \A y \in S : y <= m

\* normalize: signal / max_val if max_val != 0 else signal.  The result is
\* kept as the exact quotients num[j] / den.
normalize(signal) ==
    [num |-> signal,
     den |-> IF max_val(signal) # 0 THEN max_val(signal) ELSE 1]

(***************************************************************************)
(* AudioProcessor.detect_clicks_and_cut and AudioProcessor.cutting         *)
(***************************************************************************)
\* int(self.peak_detect_ms * self.sample_rate / 1000)
PeakWindowSamples(sample_rate) == (PeakDetectMs * sample_rate) \div 1000

\* int(0.01 * self.sample_rate); exact for the rates of DetRates
SamplesToAdd(sample_rate) == sample_rate \div 100

\* normalized_data[j] > self.threshold
AboveThreshold(n, j) == RatGT(At(n.num, j), n.den, ThresholdNum, ThresholdDen)

\* The inner while loop: from cursor j with the running maximum
\* highest_peak (a numerator over n.den) found at highest_peak_index.
RECURSIVE PeakSearch(_, _, _, _, _)
PeakSearch(n, j, search_end_index, highest_peak, highest_peak_index) ==
    IF j <= search_end_index /\ j < Len(n.num)
    THEN IF RatGT(At(n.num, j), n.den, highest_peak, n.den)
         THEN PeakSearch(n, j + 1, search_end_index, At(n.num, j), j)
         ELSE PeakSearch(n, j + 1, search_end_index, highest_peak,
                         highest_peak_index)
    ELSE [i |-> j, highest_peak_index |-> highest_peak_index]

\* cutting with the slice end taken one row too far
CutEndOneTooFar(len, highest_peak_index, samples_to_add) ==
    Min(len, highest_peak_index + samples_to_add + 1)

CutEnd(len, highest_peak_index, samples_to_add) ==
    Min(len, highest_peak_index + samples_to_add)

CutStart(highest_peak_index, samples_to_add) ==
    Max(0, highest_peak_index - samples_to_add)

cutting(data, highest_peak_index, sample_rate) ==
    LET samples_to_add == SamplesToAdd(sample_rate)
        start_cut == CutStart(highest_peak_index, samples_to_add)
        end_cut == CutEnd(Len(data), highest_peak_index, samples_to_add)
    IN  [potential_click |-> Slice(data, start_cut, end_cut),
         start_cut |-> start_cut,
         end_cut |-> end_cut]

\* the cursor continuing right after the peak instead of after the segment
NextCursorPastPeak(searched, cut) == searched.highest_peak_index + 1

\* the cursor the outer loop continues from after a detection
NextCursor(searched, cut) == cut.end_cut

\* detect_clicks_and_cut up to the first loop test: normalize channel 0;
\* np.max of an empty channel raises ValueError
DetectEnter ==
    /\ det.pc = "call"
    /\ IF Len(det.data) = 0
       THEN det' = [det EXCEPT !.pc = "raised"]
       ELSE det' = [det EXCEPT !.pc = "scan", !.i = 0]
    /\ UNCHANGED <<est, ra, drv, clk, nrm, pipe>>

\* one iteration of the outer loop that finds a sample above the threshold:
\* peak search, cutting, append, cursor reset
DetectClick ==
    /\ det.pc = "scan"
    /\ det.i < Len(det.data)
    /\ Len(det.potential_clicks) < MaxClicks
    /\ LET n == normalize(Channel(det.data, 0))
       IN  /\ AboveThreshold(n, det.i)
           /\ LET search_end_index == det.i + PeakWindowSamples(det.sample_rate)
                  searched == PeakSearch(n, det.i, search_end_index, 0, det.i)
                  cut == cutting(det.data, searched.highest_peak_index,
                                 det.sample_rate)
              IN  det' = [det EXCEPT
                      !.potential_clicks = Append(@,
                          [index |-> searched.highest_peak_index,
                           segment |-> cut.potential_click]),
                      !.trace = Append(@,
                          [trigger |-> det.i,
                           start_cut |-> cut.start_cut,
                           end_cut |-> cut.end_cut]),
                      !.i = NextCursor(searched, cut)]
    /\ UNCHANGED <<est, ra, drv, clk, nrm, pipe>>

\* one iteration of the outer loop on a sample at or below the threshold
DetectSkip ==
    /\ det.pc = "scan"
    /\ det.i < Len(det.data)
    /\ ~AboveThreshold(normalize(Channel(det.data, 0)), det.i)
    /\ det' = [det EXCEPT !.i = @ + 1]
    /\ UNCHANGED <<est, ra, drv, clk, nrm, pipe>>

\* the outer loop test fails: return potential_clicks
DetectReturn ==
    /\ det.pc = "scan"
    /\ det.i >= Len(det.data)
    /\ det' = [det EXCEPT !.pc = "done"]
    /\ UNCHANGED <<est, ra, drv, clk, nrm, pipe>>

\* channel 1 never steers the scan; it carries a position mark so that a
\* segment shows which rows it was cut from
MarkedRows(ch0) == [j \in 1..Len(ch0) |-> <<ch0[j], 100 + j>>]

DetIdle ==
    [pc |-> "idle", data |-> <<>>, sample_rate |-> 0, i |-> 0,
     potential_clicks |-> <<>>, trace |-> <<>>]

\* the buffers and sample rates a scan starts from
DetInputs ==
    {[pc |-> "call", data |-> MarkedRows(ch0), sample_rate |-> rate,
      i |-> 0, potential_clicks |-> <<>>, trace |-> <<>>] :
        ch0 \in SeqsUpTo(DetSamples, MaxLen), rate \in DetRates}

DetNext == DetectEnter \/ DetectClick \/ DetectSkip \/ DetectReturn

(***************************************************************************)
(* Offset estimator: normalize, scipy.signal.correlate(mode='full'),       *)
(* argmax, find_offset (sync.py, main.py, filtering.py)                    *)
(***************************************************************************)
RECURSIVE SumOver(_, _)
SumOver(f, S) ==
    IF S = {} THEN 0
    ELSE LET l == CHOOSE l \in S : TRUE IN f[l] + SumOver(f, S \ {l})

\* correlate(x, y, mode='full') of two normalized signals of length N:
\* c[k] = sum over l of x[l] * y[l - k + N - 1], k = 0 .. 2N-2, kept as the
\* exact quotients num[k] / den
correlate(x, y) ==
    LET N == Len(x.num)
    IN  [num |-> [k1 \in 1..(2 * N - 1) |->
                    LET k == k1 - 1
                        ls == {l \in 0..(N - 1) :
                                 l - k + N - 1 \in 0..(N - 1)}
                    IN  SumOver([l \in ls |->
                                   At(x.num, l) * At(y.num, l - k + N - 1)],
                                ls)],
         den |-> x.den * y.den]

\* correlation.argmax(): the first index of the maximum
argmax(c) ==
    LET v(k) == c.num[k + 1] * Sign(c.den)
        ks == 0..(Len(c.num) - 1)
    IN  CHOOSE k \in ks :
            /\ \A j \in ks : v(j) <= v(k)
            /\ \A j \in ks : j < k => v(j) < v(k)

\* find_offset with the centre taken one index too far
find_offset_centre_off(correlation) ==
    argmax(correlation) - (Len(correlation.num) \div 2 + 1)

find_offset(correlation) ==
    argmax(correlation) - (Len(correlation.num) \div 2)

\* AudioAnalyzer.analyze_offsets with the two channels exchanged
analyze_offsets_swapped(data) ==
    find_offset(correlate(normalize(Channel(data, 1)),
                          normalize(Channel(data, 0))))

\* AudioAnalyzer.analyze_offsets on a non-empty stereo buffer
analyze_offsets(data) ==
    find_offset(correlate(normalize(Channel(data, 0)),
                          normalize(Channel(data, 1))))

(***************************************************************************)
(* Channel realigner: modify_data (sync.py, main.py)                       *)
(***************************************************************************)
Absolute(x) == IF x < 0 THEN -x ELSE x

\* s[o:] for o >= 0
SliceFrom(s, o) == Slice(s, Min(o, Len(s)), Len(s))

\* s[:-o] for o > 0
SliceDropLast(s, o) == Slice(s, 0, Max(Len(s) - o, 0))

\* np.column_stack of two columns of equal length
column_stack(c0, c1) == [j \in 1..Len(c0) |-> <<c0[j], c1[j]>>]

\* modify_data with the trims of the negative branch on the wrong channels
modify_data_wrong_negative(data, offset) ==
    IF offset # 0
    THEN column_stack(SliceFrom(Channel(data, 0), Absolute(offset)),
                      SliceDropLast(Channel(data, 1), Absolute(offset)))
    ELSE data

modify_data(data, offset) ==
    IF offset > 0
    THEN column_stack(SliceFrom(Channel(data, 0), Absolute(offset)),
                      SliceDropLast(Channel(data, 1), Absolute(offset)))
    ELSE IF offset < 0
    THEN column_stack(SliceDropLast(Channel(data, 0), Absolute(offset)),
                      SliceFrom(Channel(data, 1), Absolute(offset)))
    ELSE data

(***************************************************************************)
(* Estimate, realign, estimate again.                                      *)
(***************************************************************************)
EstimateOffset ==
    /\ est.pc = "start"
    /\ est' = [est EXCEPT !.pc = "estimated",
                          !.offset = analyze_offsets(est.data)]
    /\ UNCHANGED <<det, ra, drv, clk, nrm, pipe>>

Realign ==
    /\ est.pc = "estimated"
    /\ est' = [est EXCEPT !.pc = "realigned",
                          !.new_data = modify_data(est.data, est.offset)]
    /\ UNCHANGED <<det, ra, drv, clk, nrm, pipe>>

\* normalize raises ValueError on an empty channel
ReEstimate ==
    /\ est.pc = "realigned"
    /\ IF Len(est.new_data) = 0
       THEN est' = [est EXCEPT !.pc = "raised"]
       ELSE est' = [est EXCEPT !.pc = "done",
                              !.offset2 = analyze_offsets(est.new_data)]
    /\ UNCHANGED <<det, ra, drv, clk, nrm, pipe>>

\* a shifted right by k samples, zero-padded
ShiftRight(a, k) == [j \in 1..Len(a) |-> IF j <= k THEN 0 ELSE a[j - k]]

EstIdle ==
    [pc |-> "idle", data |-> <<>>, shift |-> 0, offset |-> 0,
     new_data |-> <<>>, offset2 |-> 0]

\* stereo buffers whose channel 1 is channel 0 shifted right by k
EstInputs ==
    {[pc |-> "start", data |-> column_stack(t[1], ShiftRight(t[1], t[2])),
      shift |-> t[2], offset |-> 0, new_data |-> <<>>, offset2 |-> 0] :
        t \in {u \in SeqsUpTo(EstSamples, MaxN) \X (0..(MaxN - 1)) :
                  u[2] < Len(u[1])}}

EstNext == EstimateOffset \/ Realign \/ ReEstimate

(***************************************************************************)
(* One call of modify_data with an arbitrary lag.                          *)
(***************************************************************************)
\* modify_data has no raise statement: every call returns a buffer
CallModifyData ==
    /\ ra.pc = "call"
    /\ ra' = [ra EXCEPT !.pc = "returned",
                        !.out = modify_data(ra.data, ra.lag)]
    /\ UNCHANGED <<det, est, drv, clk, nrm, pipe>>

RaIdle == [pc |-> "idle", data |-> <<>>, lag |-> 0, out |-> <<>>]

\* stereo buffers of up to MaxRows rows, each with every lag up to one
\* more than the longest buffer
RaInputs ==
    {[pc |-> "call", data |-> column_stack(t[1], t[2]), lag |-> t[3],
      out |-> <<>>] :
        t \in {u \in SeqsUpTo(RaSamples, MaxRows)
                       \X SeqsUpTo(RaSamples, MaxRows)
                       \X ((0 - MaxRows - 1)..(MaxRows + 1)) :
                  Len(u[1]) = Len(u[2])}}

RaNext == CallModifyData

(***************************************************************************)
(* Alignment drivers: AudioSyncFilter.process_directory (sync.py) and the  *)
(* module-level loop of main.py.  A file name is the sequence of its       *)
(* dot-separated parts: "a.b.wav" is <<"a", "b", "wav">>.                  *)
(***************************************************************************)
\* the directory entries a folder is made of
DirEntries ==
    {<<"a", "wav">>, <<"a", "b", "wav">>, <<"b", "wav">>, <<"a", "txt">>}

\* file.endswith('.wav')
EndsWithWav(file) == Len(file) >= 2 /\ file[Len(file)] = "wav"

\* [file for file in os.listdir(folder) if file.endswith('.wav')]
WavFiles(folder) == {file \in folder : EndsWithWav(file)}

\* file.rsplit('.', 1)[0]: everything before the last dot
rsplit_base(file) == SubSeq(file, 1, Len(file) - 1)

\* file.split('.', 1)[0]: everything before the first dot
split_base(file) == SubSeq(file, 1, 1)

\* processed_file_path: sync.py joins base_filename + "_processed.wav",
\* main.py joins base_filename + ".wav"
processed_file_path(variant, file) ==
    IF variant = "sync"
    THEN [base |-> rsplit_base(file), suffix |-> "_processed.wav"]
    ELSE [base |-> split_base(file), suffix |-> ".wav"]

\* the test that never finds an existing output
path_exists_never(processed, path) == FALSE

\* os.path.exists(processed_file_path)
path_exists(processed, path) == path \in processed

DrvOut(file) == processed_file_path(drv.variant, file)

\* a run of the driver starts: list the folder, make the output directory
StartPass ==
    /\ drv.pc = "idle"
    /\ drv.passes < MaxPasses
    /\ drv' = [drv EXCEPT !.pc = "loop", !.passes = @ + 1,
                          !.wav_files = WavFiles(drv.folder),
                          !.failed = {}]
    /\ UNCHANGED <<det, est, ra, clk, nrm, pipe>>

\* loop body, output exists: continue
SkipFile ==
    /\ drv.pc = "loop"
    /\ \E file \in drv.wav_files :
          /\ path_exists(drv.processed, DrvOut(file))
          /\ drv' = [drv EXCEPT
                  !.wav_files = @ \ {file},
                  !.users = [@ EXCEPT ![DrvOut(file)] = @ \cup {file}],
                  !.skipped = @ \cup {file}]
    /\ UNCHANGED <<det, est, ra, clk, nrm, pipe>>

\* loop body, output missing, process_wav_file and wavfile.write succeed.
\* AudioSyncFilter.process_wav_file raises for every file (PipeEstimate), so
\* only main.py's loop gets here.
ProcessFile ==
    /\ drv.pc = "loop"
    /\ drv.variant = "main"
    /\ \E file \in drv.wav_files :
          /\ ~path_exists(drv.processed, DrvOut(file))
          /\ drv' = [drv EXCEPT
                  !.wav_files = @ \ {file},
                  !.processed = @ \cup {DrvOut(file)},
                  !.users = [@ EXCEPT ![DrvOut(file)] = @ \cup {file}],
                  !.runs = [@ EXCEPT ![file] = @ + 1],
                  !.writes = [@ EXCEPT ![DrvOut(file)] = @ + 1],
                  !.writer = [@ EXCEPT ![DrvOut(file)] = file]]
    /\ UNCHANGED <<det, est, ra, clk, nrm, pipe>>

\* loop body, output missing, process_wav_file raises: except, print
ProcessFileFails ==
    /\ drv.pc = "loop"
    /\ \E file \in drv.wav_files :
          /\ ~path_exists(drv.processed, DrvOut(file))
          /\ drv' = [drv EXCEPT
                  !.wav_files = @ \ {file},
                  !.users = [@ EXCEPT ![DrvOut(file)] = @ \cup {file}],
                  !.runs = [@ EXCEPT ![file] = @ + 1],
                  !.failed = @ \cup {file}]
    /\ UNCHANGED <<det, est, ra, clk, nrm, pipe>>

\* the for loop is exhausted
EndPass ==
    /\ drv.pc = "loop"
    /\ drv.wav_files = {}
    /\ drv' = [drv EXCEPT !.pc = "idle"]
    /\ UNCHANGED <<det, est, ra, clk, nrm, pipe>>

\* the process is killed between two files
Crash ==
    /\ drv.pc = "loop"
    /\ drv.wav_files # {}
    /\ drv' = [drv EXCEPT !.pc = "idle", !.wav_files = {}]
    /\ UNCHANGED <<det, est, ra, clk, nrm, pipe>>

DrvPaths ==
    {processed_file_path(v, f) : v \in {"sync", "main"}, f \in DirEntries}

DrvIdle ==
    [pc |-> "off", variant |-> "sync", folder |-> {}, wav_files |-> {},
     processed |-> {}, passes |-> 0, failed |-> {}, skipped |-> {},
     users |-> <<>>, runs |-> <<>>, writes |-> <<>>, writer |-> <<>>]

\* a folder of any of the entries, an empty output directory, either driver
DrvInputs ==
    {[pc |-> "idle", variant |-> v, folder |-> folder, wav_files |-> {},
      processed |-> {}, passes |-> 0, failed |-> {}, skipped |-> {},
      users |-> [p \in DrvPaths |-> {}],
      runs |-> [f \in DirEntries |-> 0],
      writes |-> [p \in DrvPaths |-> 0],
      writer |-> [p \in DrvPaths |-> <<>>]] :
        v \in {"sync", "main"}, folder \in SUBSET DirEntries}

DrvNext ==
    StartPass \/ SkipFile \/ ProcessFile \/ ProcessFileFails \/ EndPass
        \/ Crash

(***************************************************************************)
(* Click driver: AudioProcessor.process_files.  A file of the processed    *)
(* folder is described by what reading and scanning it gives (kind) and,   *)
(* for a file whose scan returns, by the number of clicks                  *)
(* detect_clicks_and_cut returns for it.                                   *)
(***************************************************************************)
ClkNames == {<<"a", "wav">>, <<"b", "wav">>}

\* "stereo": two channels, at least one row, and a scan that returns;
\* "empty": two channels and no row, detect_clicks_and_cut raises
\* ValueError (DetectEnter); "endless": two channels, a sample rate below
\* 100 and a sample above the threshold, detect_clicks_and_cut never
\* returns a list (DetectClick leaves the cursor where it was and appends
\* to potential_clicks until memory runs out); "surround":
\* data.shape[1] != 2, skipped with continue; "mono": a 1-D array,
\* data.shape[1] raises IndexError; "unreadable": wavfile.read raises
ClkKinds == {"stereo", "empty", "endless", "surround", "mono", "unreadable"}

ClkStart ==
    /\ clk.pc = "idle"
    /\ clk' = [clk EXCEPT !.pc = "loop", !.wav_files = DOMAIN clk.files]
    /\ UNCHANGED <<det, est, ra, drv, nrm, pipe>>

\* wavfile.read or data.shape[1] raises: except, print
ClkReadFails ==
    /\ clk.pc = "loop"
    /\ \E file \in clk.wav_files :
          /\ clk.files[file].kind \in {"mono", "unreadable"}
          /\ clk' = [clk EXCEPT !.wav_files = @ \ {file},
                                !.attempted = @ \cup {file},
                                !.failed = @ \cup {file}]
    /\ UNCHANGED <<det, est, ra, drv, nrm, pipe>>

\* data.shape[1] != 2: print, continue
ClkNotStereo ==
    /\ clk.pc = "loop"
    /\ \E file \in clk.wav_files :
          /\ clk.files[file].kind = "surround"
          /\ clk' = [clk EXCEPT !.wav_files = @ \ {file},
                                !.attempted = @ \cup {file}]
    /\ UNCHANGED <<det, est, ra, drv, nrm, pipe>>

\* detect_clicks_and_cut raises on a buffer without rows: except, print
ClkDetectRaises ==
    /\ clk.pc = "loop"
    /\ \E file \in clk.wav_files :
          /\ clk.files[file].kind = "empty"
          /\ clk' = [clk EXCEPT !.wav_files = @ \ {file},
                                !.attempted = @ \cup {file},
                                !.failed = @ \cup {file}]
    /\ UNCHANGED <<det, est, ra, drv, nrm, pipe>>

\* the endless scan runs out of memory and potential_clicks.append raises
\* MemoryError, an Exception like any other: except, print
ClkDetectExhausts ==
    /\ clk.pc = "loop"
    /\ \E file \in clk.wav_files :
          /\ clk.files[file].kind = "endless"
          /\ clk' = [clk EXCEPT !.wav_files = @ \ {file},
                                !.attempted = @ \cup {file},
                                !.failed = @ \cup {file}]
    /\ UNCHANGED <<det, est, ra, drv, nrm, pipe>>

\* the endless scan is still running, or the process was killed when
\* memory ran out: process_files does not leave this iteration, nothing is
\* written and no later file is taken up
ClkDetectHangs ==
    /\ clk.pc = "loop"
    /\ \E file \in clk.wav_files :
          /\ clk.files[file].kind = "endless"
          /\ clk' = [clk EXCEPT !.pc = "hung",
                                !.attempted = @ \cup {file}]
    /\ UNCHANGED <<det, est, ra, drv, nrm, pipe>>

\* the scan returns and every click of the file is written, one
\* wavfile.write per click
ClkWriteAll ==
    /\ clk.pc = "loop"
    /\ \E file \in clk.wav_files :
          /\ clk.files[file].kind = "stereo"
          /\ clk' = [clk EXCEPT
                  !.wav_files = @ \ {file},
                  !.attempted = @ \cup {file},
                  !.click_files = @ \cup
                      {<<file, idx>> : idx \in 0..(clk.files[file].clicks - 1)}]
    /\ UNCHANGED <<det, est, ra, drv, nrm, pipe>>

\* the scan returns and wavfile.write raises for click number `bad` of the
\* enumerate loop, after the clicks before it were written: except, print
ClkWriteFails ==
    /\ clk.pc = "loop"
    /\ \E file \in clk.wav_files :
          /\ clk.files[file].kind = "stereo"
          /\ \E bad \in 0..(clk.files[file].clicks - 1) :
                clk' = [clk EXCEPT
                    !.wav_files = @ \ {file},
                    !.attempted = @ \cup {file},
                    !.failed = @ \cup {file},
                    !.click_files = @ \cup
                        {<<file, idx>> : idx \in 0..(bad - 1)}]
    /\ UNCHANGED <<det, est, ra, drv, nrm, pipe>>

ClkEnd ==
    /\ clk.pc = "loop"
    /\ clk.wav_files = {}
    /\ clk' = [clk EXCEPT !.pc = "done"]
    /\ UNCHANGED <<det, est, ra, drv, nrm, pipe>>

ClkIdle ==
    [pc |-> "off", files |-> <<>>, wav_files |-> {}, attempted |-> {},
     failed |-> {}, click_files |-> {}]

\* processed folders of up to two .wav files, no click files yet
ClkInputs ==
    UNION {{[pc |-> "idle", files |-> files, wav_files |-> {},
             attempted |-> {}, failed |-> {}, click_files |-> {}] :
               files \in [names ->
                   [kind : ClkKinds, clicks : 0..MaxFileClicks]]} :
           names \in SUBSET ClkNames}

ClkNext ==
    ClkStart \/ ClkReadFails \/ ClkNotStereo \/ ClkDetectRaises
        \/ ClkDetectExhausts \/ ClkDetectHangs \/ ClkWriteAll
        \/ ClkWriteFails \/ ClkEnd

(***************************************************************************)
(* One call of normalize (AudioProcessor.normalize, AudioSyncFilter         *)
(* .normalize, main.normalize) on a signal of int16 samples, as             *)
(* wavfile.read returns them for a 16-bit PCM file.                         *)
(***************************************************************************)
\* np.max of an empty array raises ValueError; otherwise the signal is
\* divided by max_val, or returned as it is when max_val == 0
CallNormalize ==
    /\ nrm.pc = "call"
    /\ IF Len(nrm.signal) = 0
       THEN nrm' = [nrm EXCEPT !.pc = "raised"]
       ELSE nrm' = [nrm EXCEPT !.pc = "returned",
                              !.out = normalize(nrm.signal)]
    /\ UNCHANGED <<det, est, ra, drv, clk, pipe>>

NrmIdle == [pc |-> "idle", signal |-> <<>>, out |-> [num |-> <<>>, den |-> 1]]

\* signals of up to MaxSig int16 samples
NrmInputs ==
    {[pc |-> "call", signal |-> signal, out |-> [num |-> <<>>, den |-> 1]] :
        signal \in SeqsUpTo(NrmSamples, MaxSig)}

NrmNext == CallNormalize

(***************************************************************************)
(* process_wav_file (sync.py, main.py): estimate the offset on the sync    *)
(* segment, trim the segment, realign, high-pass filter.                   *)
(***************************************************************************)
\* int(sample_rate * sync_duration_ms / 1000)
sync_length(sample_rate, sync_duration_ms) ==
    (sample_rate * sync_duration_ms.num) \div (1000 * sync_duration_ms.den)

\* data[:sync_length]
sync_segment(data, n) == Slice(data, 0, Min(n, Len(data)))

\* segment_cross_correlation on a non-empty segment
segment_cross_correlation(data, n) ==
    correlate(normalize(Channel(sync_segment(data, n), 0)),
              normalize(Channel(sync_segment(data, n), 1)))

\* the trim that keeps the last row of the sync segment
trim_sync_keep_last(data, n) == SliceFrom(data, Max(n - 1, 0))

\* data[sync_length:]
trim_sync(data, n) == SliceFrom(data, n)

\* butter(order, cutoff / (0.5 * sample_rate), btype='high') raises
\* ValueError unless 0 < Wn < 1
ButterRaises(sample_rate) == 2 * Cutoff >= sample_rate

\* filtfilt's default padlen: 3 * max(len(a), len(b)), with order + 1
\* coefficients each
FiltfiltPadlen == 3 * (FilterOrder + 1)

\* filtfilt(b, a, data, axis=0) raises ValueError unless the buffer is
\* longer than padlen
FiltfiltRaises(data) == Len(data) <= FiltfiltPadlen

\* high_pass_filter: raises, or returns an array of the shape of its
\* input (the filtered sample values are not modelled)
high_pass_filter(data, sample_rate) ==
    IF ButterRaises(sample_rate) \/ FiltfiltRaises(data)
    THEN [raised |-> TRUE, shape |-> <<0, 0>>]
    ELSE [raised |-> FALSE, shape |-> <<Len(data), 2>>]

\* process_wav_file up to find_offset.  AudioSyncFilter reads
\* self.sample_rate in segment_cross_correlation, an attribute that no
\* code of the class assigns: AttributeError.  main.py passes sync_length;
\* normalize raises ValueError on an empty segment.
PipeEstimate ==
    /\ pipe.pc = "call"
    /\ LET n == sync_length(pipe.sample_rate, pipe.sync_duration_ms)
       IN  IF pipe.variant = "sync" \/ Len(sync_segment(pipe.data, n)) = 0
           THEN pipe' = [pipe EXCEPT !.pc = "raised"]
           ELSE pipe' = [pipe EXCEPT
                    !.pc = "estimated",
                    !.offset = find_offset(segment_cross_correlation(pipe.data, n))]
    /\ UNCHANGED <<det, est, ra, drv, clk, nrm>>

\* data = data[sync_length:]; new_data = modify_data(data, offset)
PipeRealign ==
    /\ pipe.pc = "estimated"
    /\ LET n == sync_length(pipe.sample_rate, pipe.sync_duration_ms)
       IN  pipe' = [pipe EXCEPT
               !.pc = "realigned",
               !.new_data = modify_data(trim_sync(pipe.data, n), pipe.offset)]
    /\ UNCHANGED <<det, est, ra, drv, clk, nrm>>

\* filtered_data = high_pass_filter(new_data, sample_rate);
\* return filtered_data, sample_rate
PipeFilter ==
    /\ pipe.pc = "realigned"
    /\ LET filtered == high_pass_filter(pipe.new_data, pipe.sample_rate)
       IN  IF filtered.raised
           THEN pipe' = [pipe EXCEPT !.pc = "raised"]
           ELSE pipe' = [pipe EXCEPT
                    !.pc = "returned",
                    !.out = [shape |-> filtered.shape,
                             sample_rate |-> pipe.sample_rate]]
    /\ UNCHANGED <<det, est, ra, drv, clk, nrm>>

\* a stereo buffer of L rows: the leading rows are head, the rest silence
PipeData(L, head) ==
    [j \in 1..L |-> IF j <= Len(head) THEN head[j] ELSE <<0, 0>>]

PipeIdle ==
    [pc |-> "idle", variant |-> "sync", sample_rate |-> 0,
     sync_duration_ms |-> [num |-> 0, den |-> 1], data |-> <<>>,
     offset |-> 0, new_data |-> <<>>,
     out |-> [shape |-> <<0, 0>>, sample_rate |-> 0]]

\* stereo files of up to MaxPipeRows rows read by either implementation
PipeInputs ==
    {[pc |-> "call", variant |-> t[1], sample_rate |-> t[2],
      sync_duration_ms |-> t[3], data |-> PipeData(t[4], t[5]),
      offset |-> 0, new_data |-> <<>>,
      out |-> [shape |-> <<0, 0>>, sample_rate |-> 0]] :
        t \in {u \in {"sync", "main"} \X PipeRates \X SyncDurations
                       \X (0..MaxPipeRows)
                       \X SeqsUpTo(PipeSamples \X PipeSamples, MaxHead) :
                  Len(u[5]) = Min(u[4], MaxHead)}}

PipeNext == PipeEstimate \/ PipeRealign \/ PipeFilter

(***************************************************************************)
(* Specifications.                                                         *)
(***************************************************************************)
InitDetect ==
    det \in DetInputs /\ est = EstIdle /\ ra = RaIdle /\ drv = DrvIdle
        /\ clk = ClkIdle /\ nrm = NrmIdle /\ pipe = PipeIdle

InitEstimate ==
    est \in EstInputs /\ det = DetIdle /\ ra = RaIdle /\ drv = DrvIdle
        /\ clk = ClkIdle /\ nrm = NrmIdle /\ pipe = PipeIdle

InitRealign ==
    ra \in RaInputs /\ det = DetIdle /\ est = EstIdle /\ drv = DrvIdle
        /\ clk = ClkIdle /\ nrm = NrmIdle /\ pipe = PipeIdle

InitAlignDriver ==
    drv \in DrvInputs /\ det = DetIdle /\ est = EstIdle /\ ra = RaIdle
        /\ clk = ClkIdle /\ nrm = NrmIdle /\ pipe = PipeIdle

InitClickDriver ==
    clk \in ClkInputs /\ det = DetIdle /\ est = EstIdle /\ ra = RaIdle
        /\ drv = DrvIdle /\ nrm = NrmIdle /\ pipe = PipeIdle

InitNormalize ==
    nrm \in NrmInputs /\ det = DetIdle /\ est = EstIdle /\ ra = RaIdle
        /\ drv = DrvIdle /\ clk = ClkIdle /\ pipe = PipeIdle

InitPipeline ==
    pipe \in PipeInputs /\ det = DetIdle /\ est = EstIdle /\ ra = RaIdle
        /\ drv = DrvIdle /\ clk = ClkIdle /\ nrm = NrmIdle

Init ==
    InitDetect \/ InitEstimate \/ InitRealign \/ InitAlignDriver
        \/ InitClickDriver \/ InitNormalize \/ InitPipeline

Next ==
    DetNext \/ EstNext \/ RaNext \/ DrvNext \/ ClkNext \/ NrmNext
        \/ PipeNext

Spec == Init /\ [][Next]_vars

SpecDetect == InitDetect /\ [][DetNext]_vars

SpecEstimate == InitEstimate /\ [][EstNext]_vars

SpecRealign == InitRealign /\ [][RaNext]_vars

SpecAlignDriver == InitAlignDriver /\ [][DrvNext]_vars

SpecClickDriver == InitClickDriver /\ [][ClkNext]_vars

SpecNormalize == InitNormalize /\ [][NrmNext]_vars

SpecPipeline == InitPipeline /\ [][PipeNext]_vars

(***************************************************************************)
(* Properties of the click detector.                                       *)
(***************************************************************************)
DetCh0 == Channel(det.data, 0)

\* indices of channel 0 whose normalized sample is above the threshold
Transients ==
    IF Len(det.data) = 0 THEN {}
    ELSE {j \in 0..(Len(det.data) - 1) : AboveThreshold(normalize(DetCh0), j)}

DetMargin == det.sample_rate \div 100

DetWindow == (PeakDetectMs * det.sample_rate) \div 1000

\* exactly two transients p < q with q - p < peak window + margin
TwoCloseTransients ==
    /\ Cardinality(Transients) = 2
    /\ \A p, q \in Transients : p < q => q - p < DetWindow + DetMargin

\* C1 (as claimed): a scan of a buffer with exactly two transients p < q
\* closer than peak_window_samples + margin_samples returns exactly two
\* events, peaks p then q, whose segments share no sample index.
C1_TwoCloseTransientsTwoEvents ==
    (det.pc = "done" /\ TwoCloseTransients) =>
        /\ Len(det.potential_clicks) = 2
        /\ \A p, q \in Transients : p < q =>
              /\ det.potential_clicks[1].index = p
              /\ det.potential_clicks[2].index = q
        /\ det.trace[1].end_cut <= det.trace[2].start_cut

\* exactly one sample above the threshold
SingleSpike == Cardinality(Transients) = 1

\* C2: a scan of a buffer with a single spike above the threshold returns
\* exactly one event; its index is the index of the maximum of channel 0
\* and its segment is the rows [max(0, p - margin), min(L, p + margin)).
C2_SingleSpikeOneEvent ==
    (det.pc = "done" /\ SingleSpike) =>
        /\ Len(det.potential_clicks) = 1
        /\ LET p == det.potential_clicks[1].index
               L == Len(det.data)
               lo == IF p - DetMargin > 0 THEN p - DetMargin ELSE 0
               hi == IF p + DetMargin < L THEN p + DetMargin ELSE L
           IN  /\ p \in 0..(L - 1)
               /\ \A j \in 0..(L - 1) : j # p => At(DetCh0, j) < At(DetCh0, p)
               /\ det.potential_clicks[1].segment
                    = [r \in 1..(hi - lo) |-> det.data[lo + r]]

\* a returned scan of a single-spike buffer whose segment is clipped at the
\* end of the buffer
C2_Witness ==
    /\ det.pc = "done"
    /\ SingleSpike
    /\ Len(det.potential_clicks) = 1
    /\ det.potential_clicks[1].index + DetMargin > Len(det.data)
    /\ Len(det.potential_clicks[1].segment) = 3

\* C12: the events of a scan are in order and nothing is detected twice:
\* at every point of a scan each event after the first has its trigger
\* index and its peak index at or beyond the end index of the segment of
\* the event before it, and the events a scan returns have strictly
\* ascending peak indices.
C12_AscendingNoRedetection ==
    /\ \A n \in 2..Len(det.potential_clicks) :
          /\ det.trace[n].trigger >= det.trace[n - 1].end_cut
          /\ det.potential_clicks[n].index >= det.trace[n - 1].end_cut
    /\ det.pc = "done" =>
          \A n \in 2..Len(det.potential_clicks) :
              det.potential_clicks[n].index > det.potential_clicks[n - 1].index

\* a returned scan with two events, the second triggered by the first
\* sample after the first event's segment
C12_Witness ==
    /\ det.pc = "done"
    /\ det.sample_rate = 200
    /\ Len(det.potential_clicks) = 2
    /\ det.trace[1].end_cut = 2
    /\ det.trace[2].trigger = 2
    /\ det.potential_clicks[2].index > det.potential_clicks[1].index

\* C14 (as claimed): the scan terminates because every iteration of the
\* outer loop, the one that resets the cursor to the end index returned by
\* cutting included, leaves the cursor strictly greater than it was.
C14_CursorAdvances ==
    [][(det.pc = "scan" /\ det'.pc = "scan") => det'.i > det.i]_vars

(***************************************************************************)
(* Properties of the offset estimator and the realigner.                   *)
(***************************************************************************)
EstA == Channel(est.data, 0)

EstB == Channel(est.data, 1)

EstN == Len(est.data)

Estimated == est.pc \in {"estimated", "realigned", "done"}

\* the est.shift samples that the shift pushes out of channel 1 are zero
ShiftedOutZero ==
    \A j \in 1..EstN : j > EstN - est.shift => EstA[j] = 0

\* C3 (as claimed): two identical signals give lag 0.
C3_IdenticalLagZero ==
    (Estimated /\ EstA = EstB) => est.offset = 0

\* C3 (amended): two identical signals give lag 0 when normalize finds a
\* non-zero maximum; an all-zero pair of length N gives the first index of
\* the constant correlation, lag -(N - 1).
C3_IdenticalLag ==
    (Estimated /\ EstA = EstB) =>
        est.offset = IF max_val(EstA) # 0 THEN 0 ELSE 0 - (EstN - 1)

\* identical channels with non-zero samples have been estimated
C3_Witness ==
    /\ Estimated
    /\ EstA = EstB
    /\ EstN = 3
    /\ max_val(EstA) = 4
    /\ est.offset = 0

\* C4 (as claimed): channel 1 = channel 0 shifted right by k gives lag k.
C4_ShiftLagPlusK ==
    Estimated => est.offset = est.shift

\* C4 (amended): channel 1 = channel 0 shifted right by k gives lag -k
\* when the k samples shifted out are zero and channel 0 is not all zero.
C4_ShiftLagMinusK ==
    (Estimated /\ ShiftedOutZero /\ max_val(EstA) # 0) =>
        est.offset = 0 - est.shift

\* a signal that keeps all its content under a shift by 2 has been
\* estimated at lag -2
C4_Witness ==
    /\ Estimated
    /\ est.shift = 2
    /\ ShiftedOutZero
    /\ max_val(EstA) # 0
    /\ est.offset = -2

\* C5 (as claimed): estimate, realign, estimate again gives lag 0.
C5_RoundTripZero ==
    est.pc = "done" => est.offset2 = 0

\* C5 (amended): the round trip gives lag 0 when the k samples shifted out
\* are zero, and whenever the first estimate is -k.
C5_RoundTripZeroKept ==
    (est.pc = "done" /\ (ShiftedOutZero \/ est.offset = 0 - est.shift)) =>
        /\ est.offset2 = 0
        /\ est.offset = 0 - est.shift =>
              Channel(est.new_data, 0) = Channel(est.new_data, 1)

\* a round trip over a buffer shifted by 1 that was realigned to 3 rows
C5_Witness ==
    /\ est.pc = "done"
    /\ est.shift = 1
    /\ ShiftedOutZero
    /\ max_val(EstA) # 0
    /\ est.offset = -1
    /\ Len(est.new_data) = 3
    /\ est.offset2 = 0

RaL == Len(ra.data)

RaAbsLag == IF ra.lag < 0 THEN 0 - ra.lag ELSE ra.lag

\* C6 (as claimed): for every buffer of length L and every lag the result
\* has length L - |lag|; for lag > 0 row j is (channel0[j + lag],
\* channel1[j]), for lag < 0 row j is (channel0[j], channel1[j + |lag|]),
\* and for lag = 0 the input is returned.
C6_RealignRows ==
    ra.pc = "returned" =>
        /\ Len(ra.out) = RaL - RaAbsLag
        /\ ra.lag > 0 => \A j \in 1..Len(ra.out) :
              ra.out[j] = <<ra.data[j + ra.lag][1], ra.data[j][2]>>
        /\ ra.lag < 0 => \A j \in 1..Len(ra.out) :
              ra.out[j] = <<ra.data[j][1], ra.data[j + RaAbsLag][2]>>
        /\ ra.lag = 0 => ra.out = ra.data

\* C7 (as claimed): a call with |lag| >= L fails and returns no buffer.
C7_LongLagRaises ==
    (ra.pc # "call" /\ RaAbsLag >= RaL) => ra.pc = "raised"

(***************************************************************************)
(* Properties of the drivers.                                              *)
(***************************************************************************)
DrvWavs == {file \in DirEntries : EndsWithWav(file)}

\* C8: a file whose output path exists is skipped: its pipeline is not run
\* and its output is not written again, in this pass and in every later
\* pass or restart; no output path is written twice and no input is
\* processed successfully twice.
C8_OutputNeverRewritten ==
    [][\A file \in DrvWavs :
         /\ DrvOut(file) \in drv.processed =>
               /\ DrvOut(file) \in drv'.processed
               /\ drv'.runs[file] = drv.runs[file]
               /\ drv'.writes[DrvOut(file)] = drv.writes[DrvOut(file)]
         /\ drv'.writes[DrvOut(file)] <= 1]_vars

\* in a second pass a file is skipped whose output the first pass wrote
C8_Witness ==
    /\ drv.pc = "loop"
    /\ drv.passes = 2
    /\ \E file \in drv.skipped :
          /\ file \notin drv.wav_files
          /\ drv.writer[DrvOut(file)] = file
          /\ drv.runs[file] = 1
          /\ drv.writes[DrvOut(file)] = 1

\* C9 (as claimed): no two distinct input files ever check or write the
\* same output path, and a file is skipped only when the existing output
\* is the one written for that file.
C9_DistinctOutputs ==
    drv.pc # "off" =>
        /\ \A path \in DrvPaths : Cardinality(drv.users[path]) <= 1
        /\ \A file \in drv.skipped : drv.writer[DrvOut(file)] = file

\* C10 (as claimed): after a pass every listed file was attempted and no
\* output file exists for a file whose processing failed.
C10_FailedFileLeavesNoOutput ==
    clk.pc = "done" =>
        /\ clk.attempted = DOMAIN clk.files
        /\ \A file \in clk.failed :
              \A c \in clk.click_files : c[1] # file

(***************************************************************************)
(* Properties of the normalizer.                                           *)
(***************************************************************************)
\* the maximum absolute value of the input, as an integer (0 when empty)
NrmTrueMax ==
    LET S == {Absolute(nrm.signal[j]) : j \in 1..Len(nrm.signal)} \cup {0}
    IN  CHOOSE m \in S : \A y \in S : y <= m

\* C11 (as claimed): every call of normalize on a signal of int16 samples
\* of any length returns a signal of the same length; when the maximum
\* absolute value of the input is 0 the result is the input, otherwise
\* every result sample lies in [-1, 1], some result sample has absolute
\* value 1, and result[i] * max|input| = input[i].
C11_NormalizeContract ==
    nrm.pc \in {"returned", "raised"} =>
        /\ nrm.pc = "returned"
        /\ Len(nrm.out.num) = Len(nrm.signal)
        /\ NrmTrueMax = 0 => (nrm.out.num = nrm.signal /\ nrm.out.den = 1)
        /\ NrmTrueMax # 0 =>
              /\ \A j \in 1..Len(nrm.signal) :
                    Absolute(nrm.out.num[j]) <= Absolute(nrm.out.den)
              /\ \E j \in 1..Len(nrm.signal) :
                    Absolute(nrm.out.num[j]) = Absolute(nrm.out.den)
              /\ nrm.out.num = nrm.signal /\ nrm.out.den = NrmTrueMax

(***************************************************************************)
(* Properties of process_wav_file.                                         *)
(***************************************************************************)
PipeSyncLength == sync_length(pipe.sample_rate, pipe.sync_duration_ms)

\* the offset estimated on the first sync_length rows of the input
PipeLag == analyze_offsets(Slice(pipe.data, 0, PipeSyncLength))

\* C13: when process_wav_file returns for a stereo input of L rows at
\* sample rate r, the returned buffer has 2 channels, is returned with
\* sample rate r, and has L - sync_length - |lag| rows, where sync_length
\* = int(r * sync_duration_ms / 1000) and lag is the offset estimated on
\* the first sync_length rows.
C13_PipelineShape ==
    pipe.pc = "returned" =>
        /\ pipe.out.shape[2] = 2
        /\ pipe.out.sample_rate = pipe.sample_rate
        /\ pipe.out.shape[1]
              = Len(pipe.data) - PipeSyncLength - Absolute(PipeLag)

\* a returned call that trimmed a sync segment of 3 rows and realigned by
\* a lag of -2, leaving the shortest buffer the filter accepts
C13_Witness ==
    /\ pipe.pc = "returned"
    /\ PipeSyncLength = 3
    /\ pipe.offset = -2
    /\ Len(pipe.data) = 24
    /\ pipe.out.shape = <<19, 2>>
    /\ pipe.out.sample_rate = 48000

====
